---- MODULE Spec2Model ----
(***************************************************************************)
(* Access control and account lifecycle of PharmaRoleFlow: the in-memory   *)
(* repository (server/storage.ts, MemStorage), the passport based          *)
(* authenticator (server/auth.ts) and the endpoints of server/routes.ts.   *)
(* Where requests are handled one after another, an action is one HTTP     *)
(* request run to its response; SpecAsync suspends the handlers at their   *)
(* awaits and interleaves them.                                            *)
(*                                                                         *)
(* Spec        two clients at the authentication and users endpoints; no   *)
(*             handler branches on the clock, and Spec holds it still.     *)
(* SpecApi     one client at every endpoint, the clock held still.         *)
(* SpecClock   SpecApi while the clock advances.                           *)
(* SpecRoles   one client whose updates walk the seeded user through the   *)
(*             roles, and requests to routes behind hasRole.               *)
(* SpecGone    two clients that delete accounts and register them again.   *)
(* SpecStorage the methods of the repository called directly.              *)
(* SpecFault   the handlers when storage.createActivity rejects.           *)
(* SpecAsync   two clients whose create, update and delete handlers are    *)
(*             suspended at each await of a storage promise.               *)
(*                                                                         *)
(* A user record carries id, username, password, fullName, email, role,    *)
(* status and lastLogin; the location and organisation attributes are      *)
(* never read by the modelled handlers and are left out.                   *)
(***************************************************************************)
EXTENDS Integers, Sequences, FiniteSets, TLC

\* ---------------------------------------------------------------- bounds
\* Every request that changes the repository appends one activity, so the
\* length of the log bounds the number of such requests in a behaviour.
MaxActivities == 3

\* The instants the clock of SpecClock takes: 1 .. MaxClock.
MaxClock == 2

\* The length SpecRoles explores the log up to: a login and one update by
\* the holder of each of the seven roles.
MaxRoleLog == 8
\* the activities the log may hold where accounts are deleted and made again
MaxGoneLog == 5
\* the last id the repository hands out where it is called directly
MaxStoredId == 3
\* the length SpecAsync explores the log up to: a login, a registration and
\* one activity of each of two concurrent requests
MaxAsyncLog == 4
\* the requests that SpecAsync follows through their awaits
MaxCalls == 2

\* ------------------------------------------------------- program constants
NoUser == 0
NoTime == 0
FirstId == 1
NoLimit == 0
NoOrg == 0

\* shared/schema.ts: UserRole in the order of its declaration, UserStatus
RoleOrder ==
  <<"SUPER_ADMIN", "BUSINESS_UNIT_HEAD", "REGIONAL_SALES_MANAGER",
    "AREA_SALES_MANAGER", "MEDICAL_REPRESENTATIVE", "DISTRIBUTOR_HEAD",
    "DISTRIBUTOR_EXECUTIVE">>
UserRoles == {RoleOrder[i] : i \in DOMAIN RoleOrder}
UserStatuses == {"ACTIVE", "INACTIVE", "PENDING"}

\* ------------------------------------------------------------ input sets
Clients == {"c1", "c2"}
Usernames == {"admin", "alice"}
Emails == {"admin@example.com", "alice@example.com"}
Passwords == {"admin", "secret123"}
FullNames == {"N"}
RoleInputs == {"MEDICAL_REPRESENTATIVE"}
StatusInputs == {"PENDING"}

\* users, currentUserId, activities, currentActivityId: the fields of
\*   MemStorage (storage.ts 42-48); users maps a key to its record.
\* sessions: per session cookie, the user id passport serialized into the
\*   session, or NoUser.
\* now: the instant new Date() reads.
\* organizations, currentOrgId: the organisations of MemStorage and the id
\*   the next one gets.
\* req, resp: the request handled last and the response it was given.
\* pre: the repository and the sessions as that request found them.
\* served: the pairs <<operation, role>> such that an authenticated holder
\*   of the role has asked for the administrative operation and was not
\*   answered 403; recorded by SpecRoles only.
\* logLimit: the length the activity log is explored up to; a specification
\*   sets it once and no action changes it.
\* fault: storage.createActivity rejected in the request just handled.
\* calls: per client, the request whose handler is suspended at an await
\*   (SpecAsync), or the last one it finished.
VARIABLES users, currentUserId, activities, currentActivityId, sessions, now,
          organizations, currentOrgId, req, resp, pre, served, logLimit,
          fault, calls

vars == <<users, currentUserId, activities, currentActivityId, sessions, now,
          organizations, currentOrgId, req, resp, pre, served, logLimit,
          fault, calls>>

\* the fields of MemStorage
store == <<users, currentUserId, activities, currentActivityId, organizations, currentOrgId>>

\* ---------------------------------------------------------- pure helpers
\* createHash('sha256').update(password).digest('hex'): deterministic,
\* injective on the inputs, and never equal to its own input.
hashPassword(password) == "sha256:" \o password

\* { ...base, ...over }
Spread(base, over) ==
  [f \in DOMAIN base \cup DOMAIN over |-> IF f \in DOMAIN over THEN over[f] ELSE base[f]]

\* const { password, ...userWithoutPassword } = user
\* the record is returned as it is stored
userWithPassword(user) == user

userWithoutPassword(user) == [f \in DOMAIN user \ {"password"} |-> user[f]]

EmptyBody == [f \in {} |-> ""]

\* --------------------------------------------------------------- storage
getUser(us, id) == IF id \in DOMAIN us THEN id ELSE NoUser

\* Array.from(this.users.values()).find(...): the Map iterates in insertion
\* order, which is ascending key order; the result is the key or NoUser.
getUserByUsername(us, username) ==
  LET hits == {k \in DOMAIN us : us[k].username = username}
  IN IF hits = {} THEN NoUser ELSE CHOOSE k \in hits : \A j \in hits : k <= j

\* the email check reads the wrong column
findByEmailWrongColumn(us, email) ==
  LET hits == {k \in DOMAIN us : us[k].username = email}
  IN IF hits = {} THEN NoUser ELSE CHOOSE k \in hits : \A j \in hits : k <= j

findByEmail(us, email) ==
  LET hits == {k \in DOMAIN us : us[k].email = email}
  IN IF hits = {} THEN NoUser ELSE CHOOSE k \in hits : \A j \in hits : k <= j

\* the counter stays where it is
nextIdStays(id) == id

\* this.currentUserId++: the value the counter takes
nextId(id) == id + 1

createUser(us, id, insertUser) ==
  [k \in DOMAIN us \cup {id} |-> IF k = id THEN Spread(insertUser, [id |-> id]) ELSE us[k]]

\* the update digests the stored password again
updateUserRehashes(us, id, body) ==
  IF id \notin DOMAIN us THEN us
  ELSE [us EXCEPT ![id] = Spread(Spread(@, body), [password |-> hashPassword(@.password)])]

\* const updatedUser = { ...existingUser, ...user }
updateUser(us, id, body) ==
  IF id \notin DOMAIN us THEN us
  ELSE [us EXCEPT ![id] = Spread(@, body)]

\* the record stays in the Map
deleteUserKeepsRecord(us, id) == us

deleteUser(us, id) == [k \in DOMAIN us \ {id} |-> us[k]]

\* the log keeps the latest activity of each user only
createActivityLatestPerUser(acts, id, userId, action, description) ==
  LET OfOthers(a) == a.userId # userId
  IN Append(SelectSeq(acts, OfOthers),
            [id |-> id, userId |-> userId, action |-> action,
             description |-> description, timestamp |-> now])

\* this.activities.set(id, { ...activity, id, timestamp: new Date() })
createActivity(acts, id, userId, action, description) ==
  Append(acts, [id |-> id, userId |-> userId, action |-> action,
                description |-> description, timestamp |-> now])

\* ------------------------------------------------------------------ state
superAdmin ==
  [id |-> FirstId, username |-> "admin", password |-> hashPassword("admin"),
   fullName |-> "Admin User", email |-> "admin@example.com",
   role |-> "SUPER_ADMIN", status |-> "ACTIVE", lastLogin |-> NoTime]

NoRequest == [op |-> "none", client |-> "c1", id |-> NoUser, body |-> EmptyBody]
NoResponse == [op |-> "none", status |-> 0, message |-> "", users |-> {}, list |-> <<>>]

systemOrg == [id |-> FirstId, name |-> "System Administration", type |-> "SYSTEM"]

Snapshot ==
  [users |-> users, currentUserId |-> currentUserId, activities |-> activities,
   currentActivityId |-> currentActivityId, sessions |-> sessions,
   organizations |-> organizations, currentOrgId |-> currentOrgId]

\* no handler of the client is running
NoCall ==
  [op |-> "none", pc |-> "idle", id |-> NoUser, body |-> EmptyBody,
   me |-> EmptyBody, user |-> EmptyBody, found |-> FALSE, applied |-> FALSE,
   result |-> EmptyBody, created |-> NoUser, logged |-> FALSE,
   raced |-> FALSE, status |-> 0, count |-> 0]

\* new MemStorage() and setupAuth(app): the seeded repository, no session
\* bound, no request handled yet
Installed ==
  /\ pre = [users |-> [k \in {FirstId} |-> superAdmin], currentUserId |-> FirstId + 1,
            activities |-> <<>>, currentActivityId |-> 1,
            sessions |-> [c \in Clients |-> NoUser],
            organizations |-> [k \in {FirstId} |-> systemOrg],
            currentOrgId |-> FirstId + 1]
  /\ organizations = [k \in {FirstId} |-> systemOrg]
  /\ currentOrgId = FirstId + 1
  /\ served = {}
  /\ fault = FALSE
  /\ calls = [c \in Clients |-> NoCall]
  /\ users = [k \in {FirstId} |-> superAdmin]
  /\ currentUserId = FirstId + 1
  /\ activities = <<>>
  /\ currentActivityId = 1
  /\ sessions = [c \in Clients |-> NoUser]
  /\ now = 1
  /\ req = NoRequest
  /\ resp = NoResponse

Init == Installed /\ logLimit = MaxActivities

\* ------------------------------------------------------------------ auth
\* passport.session(): the bound id is deserialized by storage.getUser on
\* every request; a binding that resolves to no user is dropped.
\* a session without a binding is taken for the first stored user
deserializeUserFallsBack(c) ==
  IF sessions[c] \in DOMAIN users THEN sessions[c]
  ELSE IF DOMAIN users = {} THEN NoUser
  ELSE CHOOSE k \in DOMAIN users : \A j \in DOMAIN users : k <= j

deserializeUser(c) == getUser(users, sessions[c])

isAuthenticated(c) == deserializeUser(c) # NoUser

Resumed(c) == [sessions EXCEPT ![c] = deserializeUser(c)]

CanLog == Len(activities) < logLimit

Request(op, c, id, body) == [op |-> op, client |-> c, id |-> id, body |-> body]

\* a request arrives: it is recorded with the state it is handled in
Arrive(op, c, id, body) ==
  /\ req' = Request(op, c, id, body)
  /\ pre' = Snapshot
\* a response: its status, its message, and the user records (users) or the
\* other items (list) of its JSON body
ReplyList(op, status, us, list) ==
  [op |-> op, status |-> status, message |-> "", users |-> us, list |-> list]

Reply(op, status, message, us) ==
  [op |-> op, status |-> status, message |-> message, users |-> us, list |-> <<>>]

\* the verify callback accepts any password of a known user
VerifyUsernameOnly(username, password) == getUserByUsername(users, username)

\* LocalStrategy verify callback: key of the matched user, or NoUser
Verify(username, password) ==
  LET k == getUserByUsername(users, username)
  IN IF k = NoUser THEN NoUser
     ELSE IF hashPassword(password) # users[k].password THEN NoUser
     ELSE k

Log(userId, action, description) ==
  /\ activities' = createActivity(activities, currentActivityId, userId, action, description)
  /\ currentActivityId' = currentActivityId + 1

\* POST /api/login
Login(c, username, password) ==
  LET k == Verify(username, password) IN
  /\ Arrive("login", c, NoUser, [username |-> username, password |-> password])
  /\ IF k = NoUser
     THEN /\ resp' = Reply("login", 401, "Invalid credentials", {})
          /\ sessions' = Resumed(c)
          /\ UNCHANGED <<store, now>>
     ELSE /\ CanLog
          /\ users' = updateUser(users, users[k].id, [lastLogin |-> now])
          /\ sessions' = [sessions EXCEPT ![c] = users[k].id]
          /\ Log(users[k].id, "LOGIN", <<users[k].username>>)
          /\ resp' = Reply("login", 200, "", {userWithoutPassword(users[k])})
          /\ UNCHANGED <<currentUserId, now, organizations, currentOrgId>>

\* the status of the request wins over ACTIVE
registerDataDefaultsStatus(body) ==
  Spread([status |-> "ACTIVE"],
         Spread(body, [password |-> hashPassword(body.password)]))

\* { ...req.body, password: hashPassword(req.body.password),
\*   status: UserStatus.ACTIVE }
registerData(body) ==
  Spread(body, [password |-> hashPassword(body.password), status |-> "ACTIVE"])

\* POST /api/register
Register(c, body) ==
  /\ Arrive("register", c, NoUser, body)
  /\ IF getUserByUsername(users, body.username) # NoUser
     THEN /\ resp' = Reply("register", 400, "Username already exists", {})
          /\ sessions' = Resumed(c)
          /\ UNCHANGED <<store, now>>
     ELSE IF findByEmail(users, body.email) # NoUser
     THEN /\ resp' = Reply("register", 400, "Email already exists", {})
          /\ sessions' = Resumed(c)
          /\ UNCHANGED <<store, now>>
     ELSE LET id == currentUserId
              insertUser == registerData(body)
              us == createUser(users, id, insertUser)
          IN /\ CanLog
             /\ users' = us
             /\ currentUserId' = nextId(id)
             /\ Log(id, "REGISTER", <<us[id].username>>)
             /\ sessions' = [sessions EXCEPT ![c] = id]
             /\ resp' = Reply("register", 201, "", {userWithoutPassword(us[id])})
             /\ UNCHANGED <<now, organizations, currentOrgId>>

\* the logout leaves the session bound
logoutKeepsSession(c) == sessions

\* req.logout(): the session loses its bound user
logout(c) == [sessions EXCEPT ![c] = NoUser]

\* POST /api/logout
Logout(c) ==
  LET k == deserializeUser(c) IN
  /\ Arrive("logout", c, NoUser, EmptyBody)
  /\ IF ~isAuthenticated(c)
     THEN /\ resp' = Reply("logout", 401, "Unauthorized", {})
          /\ sessions' = Resumed(c)
          /\ UNCHANGED <<store, now>>
     ELSE /\ CanLog
          /\ sessions' = logout(c)
          /\ Log(users[k].id, "LOGOUT", <<users[k].username>>)
          /\ resp' = Reply("logout", 200, "OK", {})
          /\ UNCHANGED <<users, currentUserId, now, organizations, currentOrgId>>

\* GET /api/user
CurrentUser(c) ==
  LET k == deserializeUser(c) IN
  /\ Arrive("currentUser", c, NoUser, EmptyBody)
  /\ resp' = IF ~isAuthenticated(c)
             THEN Reply("currentUser", 401, "Unauthorized", {})
             ELSE Reply("currentUser", 200, "", {userWithoutPassword(users[k])})
  /\ sessions' = Resumed(c)
  /\ UNCHANGED <<store, now>>

\* insertUserSchema.parse: the columns that are notNull without a default
\* must be present; the parsed object keeps only the columns of the table
\* other than id.
RequiredFields == {"username", "password", "fullName", "email", "role"}
InsertFields == RequiredFields \cup {"status", "lastLogin"}
ValidInsertUser(body) == RequiredFields \subseteq DOMAIN body
validatedData(body) == [f \in DOMAIN body \cap InsertFields |-> body[f]]

\* POST /api/users
CreateUser(c, body) ==
  LET me == deserializeUser(c) IN
  /\ Arrive("createUser", c, NoUser, body)
  /\ IF ~isAuthenticated(c)
     THEN /\ resp' = Reply("createUser", 401, "Unauthorized", {})
          /\ sessions' = Resumed(c)
          /\ UNCHANGED <<store, now>>
     ELSE IF ~ValidInsertUser(body)
     THEN /\ resp' = Reply("createUser", 400, "Invalid user data", {})
          /\ UNCHANGED <<store, sessions, now>>
     ELSE IF getUserByUsername(users, body.username) # NoUser
     THEN /\ resp' = Reply("createUser", 400, "Username already exists", {})
          /\ UNCHANGED <<store, sessions, now>>
     ELSE IF findByEmail(users, body.email) # NoUser
     THEN /\ resp' = Reply("createUser", 400, "Email already exists", {})
          /\ UNCHANGED <<store, sessions, now>>
     ELSE LET id == currentUserId
              data == validatedData(body)
              us == createUser(users, id, Spread(data, [password |-> data.password]))
          IN /\ CanLog
             /\ users' = us
             /\ currentUserId' = nextId(id)
             /\ Log(users[me].id, "CREATE_USER",
                    <<users[me].username, us[id].username, us[id].role>>)
             /\ resp' = Reply("createUser", 201, "", {userWithoutPassword(us[id])})
             /\ UNCHANGED <<sessions, now, organizations, currentOrgId>>

\* PUT /api/users/:id
UpdateUser(c, userId, body) ==
  LET me == deserializeUser(c) IN
  /\ Arrive("updateUser", c, userId, body)
  /\ IF ~isAuthenticated(c)
     THEN /\ resp' = Reply("updateUser", 401, "Unauthorized", {})
          /\ sessions' = Resumed(c)
          /\ UNCHANGED <<store, now>>
     ELSE IF getUser(users, userId) = NoUser
     THEN /\ resp' = Reply("updateUser", 404, "User not found", {})
          /\ UNCHANGED <<store, sessions, now>>
     ELSE LET us == updateUser(users, userId, body)
          IN /\ CanLog
             /\ users' = us
             /\ Log(users[me].id, "UPDATE_USER", <<users[me].username, users[userId].username>>)
             /\ resp' = Reply("updateUser", 200, "", {userWithoutPassword(us[userId])})
             /\ UNCHANGED <<currentUserId, sessions, now, organizations, currentOrgId>>

\* the self check compares the target with the numeric route parameter's
\* string and never matches
isSelfNeverMatches(userId, me) == FALSE

\* user.id === (req.user as any).id
isSelf(userId, me) == users[userId].id = users[me].id

\* DELETE /api/users/:id
DeleteUser(c, userId) ==
  LET me == deserializeUser(c) IN
  /\ Arrive("deleteUser", c, userId, EmptyBody)
  /\ IF ~isAuthenticated(c)
     THEN /\ resp' = Reply("deleteUser", 401, "Unauthorized", {})
          /\ sessions' = Resumed(c)
          /\ UNCHANGED <<store, now>>
     ELSE IF getUser(users, userId) = NoUser
     THEN /\ resp' = Reply("deleteUser", 404, "User not found", {})
          /\ UNCHANGED <<store, sessions, now>>
     ELSE IF isSelf(userId, me)
     THEN /\ resp' = Reply("deleteUser", 400, "Cannot delete your own account", {})
          /\ UNCHANGED <<store, sessions, now>>
     ELSE /\ CanLog
          /\ users' = deleteUser(users, userId)
          /\ Log(users[me].id, "DELETE_USER", <<users[me].username, users[userId].username>>)
          /\ resp' = Reply("deleteUser", 200, "User deleted successfully", {})
          /\ UNCHANGED <<currentUserId, sessions, now, organizations, currentOrgId>>

\* -------------------------------------------------------- read endpoints
\* GET /api/users
ListUsers(c) ==
  /\ Arrive("listUsers", c, NoUser, EmptyBody)
  /\ resp' = IF ~isAuthenticated(c)
             THEN Reply("listUsers", 401, "Unauthorized", {})
             ELSE ReplyList("listUsers", 200,
                            {userWithoutPassword(users[k]) : k \in DOMAIN users}, <<>>)
  /\ sessions' = Resumed(c)
  /\ UNCHANGED <<store, now>>

\* GET /api/users/:id
GetUser(c, userId) ==
  /\ Arrive("getUser", c, userId, EmptyBody)
  /\ resp' = IF ~isAuthenticated(c)
             THEN Reply("getUser", 401, "Unauthorized", {})
             ELSE IF getUser(users, userId) = NoUser
             THEN Reply("getUser", 404, "User not found", {})
             ELSE Reply("getUser", 200, "", {userWithoutPassword(users[userId])})
  /\ sessions' = Resumed(c)
  /\ UNCHANGED <<store, now>>

\* ---------------------------------------------------------- organisations
getOrganization(orgs, id) == IF id \in DOMAIN orgs THEN id ELSE NoOrg

\* Array.from(this.organizations.values()): no organisation is ever deleted,
\* so the keys are FirstId .. currentOrgId - 1, in insertion order
getAllOrganizations(orgs) == [i \in 1..Cardinality(DOMAIN orgs) |-> orgs[i]]

createOrganization(orgs, id, organization) ==
  [k \in DOMAIN orgs \cup {id} |-> IF k = id THEN Spread(organization, [id |-> id]) ELSE orgs[k]]

\* an organisation is made under an id that has none
updateOrganizationUpserts(orgs, id, organization) ==
  [k \in DOMAIN orgs \cup {id} |->
     IF k \in DOMAIN orgs THEN Spread(orgs[k], organization)
     ELSE Spread(organization, [id |-> id])]

\* const updatedOrg = { ...existingOrg, ...organization }
updateOrganization(orgs, id, organization) ==
  IF id \notin DOMAIN orgs THEN orgs
  ELSE [orgs EXCEPT ![id] = Spread(@, organization)]

\* insertOrganizationSchema.parse: name and type are required, other keys
\* are dropped
OrgFields == {"name", "type"}
ValidInsertOrganization(body) == OrgFields \subseteq DOMAIN body
validatedOrg(body) == [f \in DOMAIN body \cap OrgFields |-> body[f]]

\* GET /api/organizations
ListOrganizations(c) ==
  /\ Arrive("listOrganizations", c, NoOrg, EmptyBody)
  /\ resp' = IF ~isAuthenticated(c)
             THEN Reply("listOrganizations", 401, "Unauthorized", {})
             ELSE ReplyList("listOrganizations", 200, {}, getAllOrganizations(organizations))
  /\ sessions' = Resumed(c)
  /\ UNCHANGED <<store, now>>

\* GET /api/organizations/:id
GetOrganization(c, orgId) ==
  /\ Arrive("getOrganization", c, orgId, EmptyBody)
  /\ resp' = IF ~isAuthenticated(c)
             THEN Reply("getOrganization", 401, "Unauthorized", {})
             ELSE IF getOrganization(organizations, orgId) = NoOrg
             THEN Reply("getOrganization", 404, "Organization not found", {})
             ELSE ReplyList("getOrganization", 200, {}, <<organizations[orgId]>>)
  /\ sessions' = Resumed(c)
  /\ UNCHANGED <<store, now>>

\* POST /api/organizations
CreateOrganization(c, body) ==
  LET me == deserializeUser(c) IN
  /\ Arrive("createOrganization", c, NoOrg, body)
  /\ IF ~isAuthenticated(c)
     THEN /\ resp' = Reply("createOrganization", 401, "Unauthorized", {})
          /\ sessions' = Resumed(c)
          /\ UNCHANGED <<store, now>>
     ELSE IF ~ValidInsertOrganization(body)
     THEN /\ resp' = Reply("createOrganization", 400, "Invalid organization data", {})
          /\ UNCHANGED <<store, sessions, now>>
     ELSE LET id == currentOrgId
              orgs == createOrganization(organizations, id, validatedOrg(body))
          IN /\ CanLog
             /\ organizations' = orgs
             /\ currentOrgId' = id + 1
             /\ Log(users[me].id, "CREATE_ORGANIZATION", <<users[me].username, orgs[id].name>>)
             /\ resp' = ReplyList("createOrganization", 201, {}, <<orgs[id]>>)
             /\ UNCHANGED <<users, currentUserId, sessions, now>>

\* ------------------------------------------------------------- activities
\* Array.prototype.sort is stable: the activities of the newest instant come
\* first, in the order the Map iterates them, which is their creation
\* order; then the older ones, sorted the same way.
RECURSIVE sortByTimestampDesc(_)
sortByTimestampDesc(acts) ==
  IF acts = <<>> THEN <<>>
  ELSE LET newest == CHOOSE t \in {acts[i].timestamp : i \in DOMAIN acts} :
                       \A i \in DOMAIN acts : acts[i].timestamp <= t
           IsNewest(a) == a.timestamp = newest
           IsOlder(a) == a.timestamp # newest
       IN SelectSeq(acts, IsNewest) \o sortByTimestampDesc(SelectSeq(acts, IsOlder))

\* MemStorage.getActivities(limit): sort, then slice(0, limit) if (limit)
getActivities(acts, limit) ==
  LET sorted == sortByTimestampDesc(acts)
  IN IF limit # NoLimit /\ limit < Len(sorted) THEN SubSeq(sorted, 1, limit) ELSE sorted

\* { ...activity, user: user ? { id, username, fullName } : undefined }
enhanced(activity) ==
  LET k == getUser(users, activity.userId)
  IN IF k = NoUser THEN activity
     ELSE Spread(activity, [user |-> [id |-> users[k].id, username |-> users[k].username,
                                      fullName |-> users[k].fullName]])

\* GET /api/activities?limit=
ListActivities(c, limit) ==
  /\ Arrive("listActivities", c, limit, EmptyBody)
  /\ resp' = IF ~isAuthenticated(c)
             THEN Reply("listActivities", 401, "Unauthorized", {})
             ELSE LET found == getActivities(activities, limit)
                  IN ReplyList("listActivities", 200, {},
                               [i \in 1..Len(found) |-> enhanced(found[i])])
  /\ sessions' = Resumed(c)
  /\ UNCHANGED <<store, now>>

\* ------------------------------------------------------------------ stats
count(S) == Cardinality(S)

\* a field the record may lack (MemStorage applies no column default)
field(r, f) == IF f \in DOMAIN r THEN r[f] ELSE ""

stats ==
  [totalUsers |-> count(DOMAIN users),
   activeUsers |-> count({k \in DOMAIN users : field(users[k], "status") = "ACTIVE"}),
   inactiveUsers |-> count({k \in DOMAIN users : field(users[k], "status") = "INACTIVE"}),
   pendingUsers |-> count({k \in DOMAIN users : field(users[k], "status") = "PENDING"}),
   pharmaCompanies |-> count({k \in DOMAIN organizations :
                               organizations[k].type = "PHARMA_COMPANY"}),
   distributors |-> count({k \in DOMAIN organizations :
                            organizations[k].type = "DISTRIBUTOR"}),
   activeMRs |-> count({k \in DOMAIN users :
                         /\ users[k].role = "MEDICAL_REPRESENTATIVE"
                         /\ field(users[k], "status") = "ACTIVE"})]

\* GET /api/stats
Stats(c) ==
  /\ Arrive("stats", c, NoUser, EmptyBody)
  /\ resp' = IF ~isAuthenticated(c)
             THEN Reply("stats", 401, "Unauthorized", {})
             ELSE ReplyList("stats", 200, {}, <<stats>>)
  /\ sessions' = Resumed(c)
  /\ UNCHANGED <<store, now>>

\* the clock of the server reaches its next millisecond
Tick ==
  /\ now < MaxClock
  /\ now' = now + 1
  /\ UNCHANGED <<store, sessions, req, resp, pre>>

\* ------------------------------------------------------- request bodies
\* a new account is asked for under the username "alice"
FullBodies ==
  [username : {"alice"}, password : {"secret123"}, fullName : FullNames,
   email : Emails, role : RoleInputs, status : StatusInputs]

\* a body that lacks the required fullName
ShortBodies ==
  [username : {"alice"}, password : {"secret123"}, email : {"alice@example.com"},
   role : RoleInputs]

\* req.body of a PUT is passed to storage.updateUser as it arrives
UpdateBodies ==
  {[username |-> "admin"], [password |-> "secret123"], [fullName |-> "X"],
   [id |-> FirstId]}

\* the ids of the stored users and one id that no user has
TargetIds == DOMAIN users \cup {currentUserId}

\* nothing is recorded in served
Quiet == UNCHANGED <<served, logLimit, fault, calls>>

Next ==
  \/ \E c \in Clients, body \in FullBodies : Register(c, body) /\ Quiet
  \/ \E c \in Clients, u \in Usernames, p \in Passwords : Login(c, u, p) /\ Quiet
  \/ \E c \in Clients : Logout(c) /\ Quiet
  \/ \E c \in Clients : CurrentUser(c) /\ Quiet
  \/ \E c \in Clients, body \in FullBodies \cup ShortBodies : CreateUser(c, body) /\ Quiet
  \/ \E c \in Clients, id \in TargetIds, body \in UpdateBodies :
        UpdateUser(c, id, body) /\ Quiet
  \/ \E c \in Clients, id \in TargetIds : DeleteUser(c, id) /\ Quiet

\* ------------------------------------------------------------------ roles
\* the role of the account the session was created for
seededRole(k) == IF k = FirstId THEN superAdmin.role ELSE users[k].role

\* req.user.role: req.user is the record deserializeUser has just read
storedRole(k) == users[k].role

\* hasRole(roles): the status the middleware answers, or 200 when it calls
\* next()
hasRole(c, roles) ==
  IF ~isAuthenticated(c) THEN 401
  ELSE IF storedRole(deserializeUser(c)) \notin roles THEN 403
  ELSE 200

\* A request to a route whose only middleware is hasRole(roles).  routes.ts
\* mounts hasRole on no route; the action shows the middleware at work.
HasRole(c, roles) ==
  /\ Arrive("hasRole", c, NoUser, [roles |-> roles])
  /\ resp' = CASE hasRole(c, roles) = 401 -> Reply("hasRole", 401, "Unauthorized", {})
               [] hasRole(c, roles) = 403 -> Reply("hasRole", 403, "Forbidden", {})
               [] OTHER -> Reply("hasRole", 200, "next", {})
  /\ sessions' = Resumed(c)
  /\ UNCHANGED <<store, now>>

\* the administrative operations of the Account Lifecycle API
AdminOps == {"createUser", "updateUser", "deleteUser", "createOrganization"}

\* the request just handled is recorded in served when an authenticated
\* holder of a role asked for an administrative operation and the answer
\* was not 403
Audit ==
  /\ UNCHANGED <<logLimit, fault, calls>>
  /\ served' = served \cup
       IF /\ req'.op \in AdminOps
          /\ pre'.sessions[req'.client] \in DOMAIN pre'.users
          /\ resp'.status # 403
       THEN {<<req'.op, pre'.users[pre'.sessions[req'.client]].role>>}
       ELSE {}

\* ------------------------------------------------- the whole of the API
\* SpecApi: every endpoint of routes.ts and auth.ts, asked for by one
\* client; SpecClock: the same while the clock advances.
ApiClients == {"c1"}

ApiBodies ==
  {[username |-> "alice", password |-> "secret123", fullName |-> "N",
    email |-> "alice@example.com", role |-> "MEDICAL_REPRESENTATIVE",
    status |-> "PENDING"]}

OrgBodies == {[name |-> "Acme", type |-> "DISTRIBUTOR"], [name |-> "Acme"]}

\* the ids of the stored organisations and one id that no organisation has
OrgIds == DOMAIN organizations \cup {currentOrgId}

\* no limit in the query, or a limit of one or two activities
Limits == {NoLimit, 1, 2}

NextApi ==
  \/ \E c \in ApiClients, body \in ApiBodies : Register(c, body) /\ Quiet
  \/ \E c \in ApiClients, p \in Passwords : Login(c, "admin", p) /\ Quiet
  \/ \E c \in ApiClients : Logout(c) /\ Quiet
  \/ \E c \in ApiClients : CurrentUser(c) /\ Quiet
  \/ \E c \in ApiClients : ListUsers(c) /\ Quiet
  \/ \E c \in ApiClients, id \in TargetIds : GetUser(c, id) /\ Quiet
  \/ \E c \in ApiClients, body \in ApiBodies : CreateUser(c, body) /\ Quiet
  \/ \E c \in ApiClients, id \in TargetIds, body \in UpdateBodies :
        UpdateUser(c, id, body) /\ Quiet
  \/ \E c \in ApiClients, id \in TargetIds : DeleteUser(c, id) /\ Quiet
  \/ \E c \in ApiClients : ListOrganizations(c) /\ Quiet
  \/ \E c \in ApiClients, id \in OrgIds : GetOrganization(c, id) /\ Quiet
  \/ \E c \in ApiClients, body \in OrgBodies : CreateOrganization(c, body) /\ Quiet
  \/ \E c \in ApiClients, limit \in Limits : ListActivities(c, limit) /\ Quiet
  \/ \E c \in ApiClients : Stats(c) /\ Quiet

NextClock ==
  \/ Tick /\ Quiet
  \/ NextApi

\* ------------------------------------------------ roles at work
\* SpecRoles: one client logs in as the seeded user and asks for updates
\* that carry a role or a status, and for routes behind hasRole.  An update
\* asks for the role declared after the one its target holds (SUPER_ADMIN
\* after the last and after an unknown one), for a role the schema does not
\* declare, or for a status it does not declare.
roleAfter(role) ==
  IF \E i \in 1..(Len(RoleOrder) - 1) : RoleOrder[i] = role
  THEN RoleOrder[(CHOOSE i \in 1..(Len(RoleOrder) - 1) : RoleOrder[i] = role) + 1]
  ELSE "SUPER_ADMIN"

RoleBodies(id) ==
  IF id \in DOMAIN users
  THEN {[role |-> roleAfter(users[id].role)], [role |-> "INTERN"], [status |-> "BANNED"]}
  ELSE {[role |-> "SUPER_ADMIN"]}

AllowedRoleSets == {{"SUPER_ADMIN"}, {"SUPER_ADMIN", "BUSINESS_UNIT_HEAD"}}

InitRoles == Installed /\ logLimit = MaxRoleLog

NextRoles ==
  \/ \E c \in ApiClients : Login(c, "admin", "admin") /\ Audit
  \/ \E c \in ApiClients, roles \in AllowedRoleSets : HasRole(c, roles) /\ Audit
  \/ \E c \in ApiClients, id \in TargetIds :
        \E body \in RoleBodies(id) : UpdateUser(c, id, body) /\ Audit

\* ----------------------------------------------------------------- claims
\* Each claim is stated of the request handled last: req is the request,
\* pre the state it found, resp its answer and the unprimed variables the
\* state it left.
WasBound(c) == pre.sessions[c] \in DOMAIN pre.users

LastActivity == activities[Len(activities)]

AppendedOne(action, userId) ==
  /\ Len(activities) = Len(pre.activities) + 1
  /\ SubSeq(activities, 1, Len(pre.activities)) = pre.activities
  /\ LastActivity.action = action
  /\ LastActivity.userId = userId

\* C1: after any sequence of register, createUser, updateUser and deleteUser
\* requests no two stored users share a username and no two share an email.
C1_UniqueUsernameAndEmail ==
  \A a, b \in DOMAIN users :
    a # b => /\ users[a].username # users[b].username
             /\ users[a].email # users[b].email

\* C2: a login whose username is unknown and a login whose password does not
\* match get the same answer, 401 "Invalid credentials", and neither creates
\* a session, changes a user record or appends an activity.
C2_LoginFailureIsUniform ==
  (/\ req.op = "login"
   /\ LET k == getUserByUsername(pre.users, req.body.username)
      IN k = NoUser \/ pre.users[k].password # hashPassword(req.body.password))
  => /\ resp = Reply("login", 401, "Invalid credentials", {})
     /\ users = pre.users
     /\ activities = pre.activities
     /\ \A c \in Clients : sessions[c] \in {pre.sessions[c], NoUser}

\* a login that named an existing user with a password that is not the
\* user's has been answered
C2_WrongPasswordRejected ==
  /\ req.op = "login"
  /\ LET k == getUserByUsername(pre.users, req.body.username)
     IN k # NoUser /\ pre.users[k].password # hashPassword(req.body.password)
  /\ resp.status = 401

\* C3: an account created by register(username, password) that has not been
\* deleted and whose stored password is still the registered digest logs in
\* with the same username and plaintext.
C3_RegisteredLoginSucceeds ==
  (/\ req.op = "login"
   /\ \E i \in 1..Len(pre.activities) :
        /\ pre.activities[i].action = "REGISTER"
        /\ pre.activities[i].description = <<req.body.username>>
        /\ pre.activities[i].userId \in DOMAIN pre.users
        /\ pre.users[pre.activities[i].userId].password = hashPassword(req.body.password))
  => resp.status = 200

\* C4: createUser stores the digest of the supplied password, never the
\* plaintext.
C4_CreateUserStoresDigest ==
  (req.op = "createUser" /\ resp.status = 201)
  => users[pre.currentUserId].password = hashPassword(req.body.password)

\* C5: updateUser with a new password stores the digest of that password.
C5_UpdateUserStoresDigest ==
  (/\ req.op = "updateUser"
   /\ resp.status = 200
   /\ "password" \in DOMAIN req.body)
  => users[req.id].password = hashPassword(req.body.password)

\* C6: a deleteUser whose target is the id the requester's session is bound
\* to is answered "Cannot delete your own account", whatever the requester's
\* role, and leaves the user records and the activity log as they were.
C6_SelfDeleteRejected ==
  (/\ req.op = "deleteUser"
   /\ WasBound(req.client)
   /\ req.id = pre.sessions[req.client])
  => /\ resp = Reply("deleteUser", 400, "Cannot delete your own account", {})
     /\ users = pre.users
     /\ activities = pre.activities

\* a user who is no SUPER_ADMIN has asked to delete its own account
C6_SelfDeleteAttempted ==
  /\ req.op = "deleteUser"
  /\ WasBound(req.client)
  /\ req.id = pre.sessions[req.client]
  /\ pre.users[req.id].role # "SUPER_ADMIN"
  /\ resp.status = 400

\* C7: a well-formed createUser by an authenticated requester that names a
\* username or an email some stored user already has is answered with a
\* conflict (400) and adds no user, appends no activity and consumes no id.
C7_ConflictLeavesRepository ==
  (/\ req.op = "createUser"
   /\ WasBound(req.client)
   /\ RequiredFields \subseteq DOMAIN req.body
   /\ \E k \in DOMAIN pre.users :
        \/ pre.users[k].username = req.body.username
        \/ pre.users[k].email = req.body.email)
  => /\ resp.status = 400
     /\ resp.message \in {"Username already exists", "Email already exists"}
     /\ users = pre.users
     /\ activities = pre.activities
     /\ currentUserId = pre.currentUserId
     /\ currentActivityId = pre.currentActivityId

\* a createUser with a fresh username was refused for its email
C7_EmailConflictRefused ==
  /\ req.op = "createUser"
  /\ resp.message = "Email already exists"
  /\ getUserByUsername(pre.users, req.body.username) = NoUser

\* The last activity is a LOGOUT and every session but that of the request
\* is bound to a user: the session of the request is the one that logout
\* destroyed, since a session bound now has not logged out since.
LoggedOutBefore ==
  /\ Len(pre.activities) > 0
  /\ pre.activities[Len(pre.activities)].action = "LOGOUT"
  /\ pre.sessions[req.client] = NoUser
  /\ \A d \in Clients \ {req.client} : pre.sessions[d] \in DOMAIN pre.users

C9_LogoutEndsSession ==
  /\ (req.op = "logout" /\ resp.status = 200)
     => /\ sessions[req.client] = NoUser
        /\ AppendedOne("LOGOUT", pre.sessions[req.client])
  /\ (~WasBound(req.client) /\ req.op \notin {"login", "register", "none"})
     => resp.status = 401

\* C10: a successful login sets lastLogin of the matched user, binds the
\* session to that user's id, appends exactly one LOGIN activity for that
\* user and changes no other user record.
C10_LoginEffects ==
  (req.op = "login" /\ resp.status = 200)
  => LET k == getUserByUsername(pre.users, req.body.username)
     IN /\ DOMAIN users = DOMAIN pre.users
        /\ users[k] = Spread(pre.users[k], [lastLogin |-> now])
        /\ \A j \in DOMAIN users \ {k} : users[j] = pre.users[j]
        /\ sessions[req.client] = k
        /\ AppendedOne("LOGIN", k)

\* C11: a successful register stores the new account under the next id with
\* status ACTIVE whatever status the request carried, appends exactly one
\* REGISTER activity for that id and leaves the session of the request bound
\* to the new account; a currentUser request on a bound session returns the
\* account the session is bound to.
C11_RegisterEffects ==
  /\ (req.op = "register" /\ resp.status = 201)
     => LET id == pre.currentUserId
        IN /\ id \notin DOMAIN pre.users
           /\ DOMAIN users = DOMAIN pre.users \cup {id}
           /\ users[id].id = id
           /\ users[id].username = req.body.username
           /\ users[id].status = "ACTIVE"
           /\ AppendedOne("REGISTER", id)
           /\ sessions[req.client] = id
           /\ resp.users = {userWithoutPassword(users[id])}
  /\ (req.op = "currentUser" /\ WasBound(req.client))
     => resp = Reply("currentUser", 200, "",
                     {userWithoutPassword(pre.users[pre.sessions[req.client]])})

\* a register that asked for the status PENDING has succeeded
C11_RegisteredAsPending ==
  /\ req.op = "register"
  /\ resp.status = 201
  /\ req.body.status = "PENDING"

\* C16: an update whose body is {fullName: X} changes fullName of the target
\* and nothing else: its other fields and every other user are as before.
C16_FullNameUpdateIsolated ==
  (/\ req.op = "updateUser"
   /\ resp.status = 200
   /\ DOMAIN req.body = {"fullName"})
  => /\ DOMAIN users = DOMAIN pre.users
     /\ users[req.id] = Spread(pre.users[req.id], [fullName |-> req.body.fullName])
     /\ DOMAIN users[req.id] = DOMAIN pre.users[req.id]
     /\ \A f \in DOMAIN users[req.id] \ {"fullName"} :
          users[req.id][f] = pre.users[req.id][f]
     /\ \A k \in DOMAIN users \ {req.id} : users[k] = pre.users[k]

\* the full name of the seeded user, who has logged in before, has been
\* changed
C16_FullNameChanged ==
  /\ req.op = "updateUser"
  /\ resp.status = 200
  /\ req.body = [fullName |-> "X"]
  /\ req.id = FirstId
  /\ pre.users[req.id].fullName # "X"
  /\ pre.users[req.id].lastLogin # NoTime
  /\ users[req.id].fullName = "X"

\* C17: an update never changes the username of its target, whatever fields
\* the request carries.
C17_UsernameNeverUpdated ==
  (req.op = "updateUser" /\ resp.status = 200)
  => users[req.id].username = pre.users[req.id].username

\* the endpoints of routes.ts: users, organizations, activities, stats
GuardedOps ==
  {"listUsers", "getUser", "createUser", "updateUser", "deleteUser",
   "listOrganizations", "getOrganization", "createOrganization",
   "listActivities", "stats"}

\* C12: a request to a users, organizations, activities or stats endpoint on
\* a session that is bound to no stored user is answered 401 "Unauthorized"
\* and the stored users, organisations and activities, and the ids to come,
\* are as the request found them.
C12_UnauthenticatedIsRefused ==
  (req.op \in GuardedOps /\ ~WasBound(req.client))
  => /\ resp = Reply(req.op, 401, "Unauthorized", {})
     /\ users = pre.users
     /\ organizations = pre.organizations
     /\ activities = pre.activities
     /\ currentUserId = pre.currentUserId
     /\ currentOrgId = pre.currentOrgId
     /\ currentActivityId = pre.currentActivityId

\* a well-formed request to create an organisation came without a session
C12_CreateOrganizationRefused ==
  /\ req.op = "createOrganization"
  /\ ~WasBound(req.client)
  /\ ValidInsertOrganization(req.body)
  /\ resp.status = 401

\* the operations whose responses carry user data
UserDataOps ==
  {"register", "login", "currentUser", "listUsers", "getUser", "createUser",
   "updateUser", "listActivities"}

\* C18: no response of register, login, currentUser, list users, get user,
\* create user, update user or list activities carries a password field,
\* neither in a user record nor in an activity or the user attached to it.
C18_NoPasswordInResponses ==
  req.op \in UserDataOps
  => /\ \A u \in resp.users : "password" \notin DOMAIN u
     /\ \A i \in DOMAIN resp.list :
          /\ "password" \notin DOMAIN resp.list[i]
          /\ "user" \in DOMAIN resp.list[i] => "password" \notin DOMAIN resp.list[i].user

\* the list of users has been returned with two users in it
C18_TwoUsersListed ==
  /\ req.op = "listUsers"
  /\ resp.status = 200
  /\ Cardinality(resp.users) = 2
  /\ \A k \in DOMAIN users : "password" \in DOMAIN users[k]

\* C19: for a log of at least n activities, getActivities(limit=n) returns
\* exactly the n activities created last, the newest first.
C19_NewestFirst ==
  (/\ req.op = "listActivities"
   /\ resp.status = 200
   /\ req.id # NoLimit
   /\ Len(pre.activities) >= req.id)
  => /\ Len(resp.list) = req.id
     /\ \A i \in 1..req.id :
          resp.list[i].id = pre.activities[Len(pre.activities) + 1 - i].id

\* C20: the activity log is append-only: a request leaves every activity it
\* found in its place, with its id, userId, action, description and
\* timestamp, also when it deletes the user the activity refers to.
C20_LogAppendOnly ==
  /\ Len(activities) >= Len(pre.activities)
  /\ SubSeq(activities, 1, Len(pre.activities)) = pre.activities
  /\ \A i, j \in DOMAIN activities : i < j => activities[i].id < activities[j].id

\* a user whom an activity of the log refers to has been deleted
C20_ReferencedUserDeleted ==
  /\ req.op = "deleteUser"
  /\ resp.status = 200
  /\ \E i \in DOMAIN pre.activities : pre.activities[i].userId = req.id
  /\ req.id \notin DOMAIN users

\* C13: each administrative operation (creating, updating and deleting
\* users, creating organisations) is guarded by hasRole as well, so for each
\* of them there is a role none of whose authenticated holders has been
\* answered otherwise than 403.
C13_AdminActionsRoleGuarded ==
  \A op \in AdminOps : \E r \in UserRoles : <<op, r>> \notin served

\* C14: hasRole(roles) answers 401 to a session bound to no stored user, 403
\* when the role now stored for the session's user is not in roles, and
\* passes otherwise; it changes nothing.  The role is the one the
\* repository holds when the request arrives, so a role an update has
\* changed decides the next request of a session made before the update.
C14_HasRoleReadsStoredRole ==
  req.op = "hasRole"
  => /\ resp = IF ~WasBound(req.client)
               THEN Reply("hasRole", 401, "Unauthorized", {})
               ELSE IF pre.users[pre.sessions[req.client]].role \notin req.body.roles
               THEN Reply("hasRole", 403, "Forbidden", {})
               ELSE Reply("hasRole", 200, "next", {})
     /\ users = pre.users
     /\ activities = pre.activities
     /\ organizations = pre.organizations

\* the seeded SUPER_ADMIN logged in, an update took the role away, and the
\* next request of that session to a route for SUPER_ADMIN was refused
C14_RoleChangeTookEffect ==
  /\ req.op = "hasRole"
  /\ req.body.roles = {"SUPER_ADMIN"}
  /\ pre.sessions[req.client] = FirstId
  /\ Len(pre.activities) = 2
  /\ pre.activities[1].action = "LOGIN"
  /\ pre.activities[2].action = "UPDATE_USER"
  /\ pre.users[FirstId].role = "BUSINESS_UNIT_HEAD"
  /\ resp.status = 403

\* C15: the role of every stored user is one of the seven roles and its
\* status is ACTIVE, INACTIVE or PENDING, whatever the requests supplied.
C15_RoleAndStatusInFixedSets ==
  \A k \in DOMAIN users :
    /\ users[k].role \in UserRoles
    /\ "status" \in DOMAIN users[k]
    /\ users[k].status \in UserStatuses

\* ------------------------------------------------- handlers at their awaits
\* SpecAsync: a handler is suspended at each await of a storage promise and
\* the handlers of other requests run meanwhile, as they do whenever the
\* promise settles in a later turn of the event loop (IStorage is a
\* contract of promises; DatabaseStorage settles them after a query).  A
\* storage method of MemStorage has no await inside and runs in one piece
\* when it is called.  calls[c].pc names the storage call the handler of
\* client c awaits and calls[c].status the status of its response.  The
\* last await of a handler and its response are one step: the handler
\* reads nothing of the repository in between.  req, resp and pre keep to
\* the requests handled in one piece.
InFlight(c) == calls[c].pc \notin {"idle", "done"}

\* the requests followed so far
RECURSIVE Started(_)
Started(cs) ==
  IF cs = {} THEN 0
  ELSE LET c == CHOOSE d \in cs : TRUE IN calls[c].count + Started(cs \ {c})

\* the client may send a request that is followed through its awaits
MayCall(c) == ~InFlight(c) /\ Started(Clients) < MaxCalls

\* the sessions are set up before the first such request
SettingUp == Started(Clients) = 0

NewCall(c, op, id, body) ==
  [NoCall EXCEPT !.op = op, !.id = id, !.body = body, !.count = calls[c].count + 1]

\* the handler has answered; req.user and the returned record are dropped
Done(call, status) ==
  [call EXCEPT !.pc = "done", !.status = status, !.me = EmptyBody,
               !.result = EmptyBody]

\* the handler of c starts; raced tells that it runs while a handler of
\* another client is suspended
Begin(c, call) ==
  calls' = [d \in Clients |->
              IF d = c
              THEN [call EXCEPT !.raced = \E e \in Clients \ {c} : InFlight(e)]
              ELSE IF InFlight(d) THEN [calls[d] EXCEPT !.raced = TRUE]
              ELSE calls[d]]

Step(c, call) == calls' = [calls EXCEPT ![c] = call]

\* isAuthenticated, then const user = await storage.getUser(userId) of the
\* PUT and DELETE handlers
BeginOnUser(op, c, userId, body) ==
  LET k == deserializeUser(c)
      call == NewCall(c, op, userId, body)
  IN /\ MayCall(c)
     /\ IF ~isAuthenticated(c)
        THEN /\ sessions' = Resumed(c)
             /\ Begin(c, Done(call, 401))
        ELSE /\ Begin(c, [call EXCEPT !.pc = "getUser", !.me = users[k],
                                      !.user = IF getUser(users, userId) = NoUser
                                               THEN EmptyBody ELSE users[userId]])
             /\ UNCHANGED sessions
     /\ UNCHANGED <<store, now>>

\* the handler sends the record it read, patched, instead of the body
patchWholeRecord(call) == Spread(call.user, call.body)

\* storage.updateUser(userId, req.body)
patch(call) == call.body

\* PUT /api/users/:id up to its first await
UpdateUserBegin(c, userId, body) == BeginOnUser("updateUser", c, userId, body)

\* PUT: if (!user) 404; const updatedUser = await storage.updateUser(...)
UpdateUserAfterGetUser(c) ==
  LET call == calls[c]
      us == updateUser(users, call.id, patch(call))
      applied == getUser(users, call.id) # NoUser
  IN /\ call.op = "updateUser" /\ call.pc = "getUser"
     /\ IF call.user = EmptyBody
        THEN /\ Step(c, Done(call, 404))
             /\ UNCHANGED users
        ELSE /\ users' = us
             /\ Step(c, [call EXCEPT !.pc = "updateUser", !.applied = applied,
                                     !.result = IF applied THEN us[call.id]
                                                ELSE EmptyBody])
     /\ UNCHANGED <<currentUserId, activities, currentActivityId, organizations,
                    currentOrgId, sessions, now>>

\* PUT: await storage.createActivity(...); if (!updatedUser) 500;
\* res.json(userWithoutPassword)
UpdateUserAfterUpdateUser(c) ==
  LET call == calls[c]
      status == IF call.applied THEN 200 ELSE 500
  IN /\ call.op = "updateUser" /\ call.pc = "updateUser"
     /\ CanLog
     /\ Log(call.me.id, "UPDATE_USER", <<call.me.username, call.user.username>>)
     /\ Step(c, [Done(call, status) EXCEPT !.logged = TRUE])
     /\ UNCHANGED <<users, currentUserId, organizations, currentOrgId, sessions, now>>

\* DELETE /api/users/:id up to its first await
DeleteUserBegin(c, userId) == BeginOnUser("deleteUser", c, userId, EmptyBody)

\* DELETE: if (!user) 404; if (user.id === req.user.id) 400;
\* const success = await storage.deleteUser(userId)
DeleteUserAfterGetUser(c) ==
  LET call == calls[c]
      success == getUser(users, call.id) # NoUser
  IN /\ call.op = "deleteUser" /\ call.pc = "getUser"
     /\ IF call.user = EmptyBody
        THEN /\ Step(c, Done(call, 404))
             /\ UNCHANGED users
        ELSE IF call.user.id = call.me.id
        THEN /\ Step(c, Done(call, 400))
             /\ UNCHANGED users
        ELSE /\ users' = deleteUser(users, call.id)
             /\ Step(c, [call EXCEPT !.pc = "deleteUser", !.applied = success])
     /\ UNCHANGED <<currentUserId, activities, currentActivityId, organizations,
                    currentOrgId, sessions, now>>

\* DELETE: if (!success) 500; await storage.createActivity(...); 200
DeleteUserAfterDeleteUser(c) ==
  LET call == calls[c]
  IN /\ call.op = "deleteUser" /\ call.pc = "deleteUser"
     /\ IF ~call.applied
        THEN /\ Step(c, Done(call, 500))
             /\ UNCHANGED <<activities, currentActivityId>>
        ELSE /\ CanLog
             /\ Log(call.me.id, "DELETE_USER", <<call.me.username, call.user.username>>)
             /\ Step(c, [Done(call, 200) EXCEPT !.logged = TRUE])
     /\ UNCHANGED <<users, currentUserId, organizations, currentOrgId, sessions, now>>

\* POST /api/users (op createUser) and POST /api/register (op register)
\* check the username, check the email and insert, one await after the
\* other; they differ in the guard, the stored data, the activity and the
\* login that follows.
\* up to const existingUser = await storage.getUserByUsername(username)
NewUserBegin(op, c, body) ==
  LET k == deserializeUser(c)
      call == NewCall(c, op, NoUser, body)
  IN /\ MayCall(c)
     /\ IF op = "createUser" /\ ~isAuthenticated(c)
        THEN /\ sessions' = Resumed(c)
             /\ Begin(c, Done(call, 401))
        ELSE IF op = "createUser" /\ ~ValidInsertUser(body)
        THEN /\ UNCHANGED sessions
             /\ Begin(c, Done(call, 400))
        ELSE /\ UNCHANGED sessions
             /\ Begin(c, [call EXCEPT
                            !.pc = "getUserByUsername",
                            !.me = IF k = NoUser THEN EmptyBody ELSE users[k],
                            !.found = getUserByUsername(users, body.username) # NoUser])
     /\ UNCHANGED <<store, now>>

\* if (existingUser) 400; (await storage.getAllUsers()).find(email)
NewUserAfterGetUserByUsername(c) ==
  LET call == calls[c]
  IN /\ call.op \in {"createUser", "register"} /\ call.pc = "getUserByUsername"
     /\ IF call.found
        THEN /\ Step(c, Done(call, 400))
        ELSE /\ Step(c, [call EXCEPT !.pc = "getAllUsers",
                                     !.found = findByEmail(users, call.body.email) # NoUser])
     /\ UNCHANGED <<store, sessions, now>>

\* if (existingEmail) 400; const user = await storage.createUser(...)
NewUserAfterGetAllUsers(c) ==
  LET call == calls[c]
      id == currentUserId
      data == validatedData(call.body)
      insertUser == IF call.op = "register" THEN registerData(call.body)
                    ELSE Spread(data, [password |-> data.password])
      us == createUser(users, id, insertUser)
  IN /\ call.op \in {"createUser", "register"} /\ call.pc = "getAllUsers"
     /\ IF call.found
        THEN /\ Step(c, Done(call, 400))
             /\ UNCHANGED <<users, currentUserId>>
        ELSE /\ users' = us
             /\ currentUserId' = nextId(id)
             /\ Step(c, [call EXCEPT !.pc = "createUser", !.created = id,
                                     !.applied = TRUE, !.result = us[id]])
     /\ UNCHANGED <<activities, currentActivityId, organizations, currentOrgId,
                    sessions, now>>

\* await storage.createActivity(...); register: req.login(user); 201
NewUserAfterCreateUser(c) ==
  LET call == calls[c]
  IN /\ call.op \in {"createUser", "register"} /\ call.pc = "createUser"
     /\ CanLog
     /\ IF call.op = "register"
        THEN /\ Log(call.result.id, "REGISTER", <<call.result.username>>)
             /\ sessions' = [sessions EXCEPT ![c] = call.result.id]
        ELSE /\ Log(call.me.id, "CREATE_USER",
                    <<call.me.username, call.result.username, call.result.role>>)
             /\ UNCHANGED sessions
     /\ Step(c, [Done(call, 201) EXCEPT !.logged = TRUE])
     /\ UNCHANGED <<users, currentUserId, organizations, currentOrgId, now>>

\* a step of a suspended handler records nothing but calls
Calm == UNCHANGED <<served, logLimit, fault, req, resp, pre>>

AsyncUpdates == {[fullName |-> "X"], [email |-> "new@example.com"]}

AsyncInserts ==
  {[username |-> "bob", password |-> "secret123", fullName |-> "N",
    email |-> "bob@example.com", role |-> "MEDICAL_REPRESENTATIVE"]}

\* the client that logs in as the seeded admin, and the one that registers
Admin == "c1"
Newcomer == "c2"

InitAsync == Installed /\ logLimit = MaxAsyncLog

NextAsync ==
  \/ SettingUp /\ Login(Admin, "admin", "admin") /\ Quiet
  \/ \E body \in ApiBodies : SettingUp /\ Register(Newcomer, body) /\ Quiet
  \/ \E c \in Clients, body \in AsyncInserts : NewUserBegin("register", c, body) /\ Calm
  \/ \E c \in Clients, body \in AsyncInserts : NewUserBegin("createUser", c, body) /\ Calm
  \/ \E c \in Clients : NewUserAfterGetUserByUsername(c) /\ Calm
  \/ \E c \in Clients : NewUserAfterGetAllUsers(c) /\ Calm
  \/ \E c \in Clients : NewUserAfterCreateUser(c) /\ Calm
  \/ \E c \in Clients, id \in TargetIds, body \in AsyncUpdates :
        UpdateUserBegin(c, id, body) /\ Calm
  \/ \E c \in Clients : UpdateUserAfterGetUser(c) /\ Calm
  \/ \E c \in Clients : UpdateUserAfterUpdateUser(c) /\ Calm
  \/ \E c \in Clients, id \in TargetIds : DeleteUserBegin(c, id) /\ Calm
  \/ \E c \in Clients : DeleteUserAfterGetUser(c) /\ Calm
  \/ \E c \in Clients : DeleteUserAfterDeleteUser(c) /\ Calm

\* --------------------------------------------- createActivity rejects
\* SpecFault: the promise of storage.createActivity may reject (as
\* DatabaseStorage.createActivity does when the insert fails,
\* database-storage.ts:316-329).  Each handler that appends an activity has
\* a second action for that case, translated from what the handler does
\* with the rejection.
\* the last user or organisation id handed out by a request whose activity
\* is lost, and the length the log is explored up to
MaxFaultId == 2
MaxFaultLog == 2

InitFault == Installed /\ logLimit = MaxFaultLog

\* a rejection nobody handles: the process goes on, or it exits and is
\* started again with a new MemStorage and an empty session store
Restarted ==
  /\ users' = [k \in {FirstId} |-> superAdmin]
  /\ currentUserId' = FirstId + 1
  /\ activities' = <<>>
  /\ currentActivityId' = 1
  /\ organizations' = [k \in {FirstId} |-> systemOrg]
  /\ currentOrgId' = FirstId + 1
  /\ sessions' = [c \in Clients |-> NoUser]

\* POST /api/login: the await sits in the async callback of req.login,
\* outside any try; the rejection is handled by nobody and no response is
\* written
LoginFault(c, username, password, exits) ==
  LET k == Verify(username, password) IN
  /\ k # NoUser
  /\ Arrive("login", c, NoUser, [username |-> username, password |-> password])
  /\ resp' = Reply("login", 0, "no response", {})
  /\ IF exits THEN Restarted
     ELSE /\ users' = updateUser(users, users[k].id, [lastLogin |-> now])
          /\ sessions' = [sessions EXCEPT ![c] = users[k].id]
          /\ UNCHANGED <<currentUserId, activities, currentActivityId,
                         organizations, currentOrgId>>
  /\ UNCHANGED now

\* POST /api/register: the await sits in the try; catch calls next(error)
\* and the error handler of express answers 500; req.login is not reached
RegisterFault(c, body) ==
  LET id == currentUserId
      us == createUser(users, id, registerData(body))
  IN /\ getUserByUsername(users, body.username) = NoUser
     /\ findByEmail(users, body.email) = NoUser
     /\ id <= MaxFaultId
     /\ Arrive("register", c, NoUser, body)
     /\ users' = us
     /\ currentUserId' = nextId(id)
     /\ sessions' = Resumed(c)
     /\ resp' = Reply("register", 500, "Internal Server Error", {})
     /\ UNCHANGED <<activities, currentActivityId, organizations, currentOrgId, now>>

\* POST /api/logout: createActivity is called without await and without
\* catch; res.sendStatus(200) follows at once
LogoutFault(c, exits) ==
  /\ isAuthenticated(c)
  /\ Arrive("logout", c, NoUser, EmptyBody)
  /\ resp' = Reply("logout", 200, "OK", {})
  /\ IF exits THEN Restarted
     ELSE /\ sessions' = logout(c)
          /\ UNCHANGED store
  /\ UNCHANGED now

\* POST /api/users: the await sits in the try; catch answers 500
CreateUserFault(c, body) ==
  LET id == currentUserId
      data == validatedData(body)
      us == createUser(users, id, Spread(data, [password |-> data.password]))
  IN /\ isAuthenticated(c)
     /\ ValidInsertUser(body)
     /\ getUserByUsername(users, body.username) = NoUser
     /\ findByEmail(users, body.email) = NoUser
     /\ id <= MaxFaultId
     /\ Arrive("createUser", c, NoUser, body)
     /\ users' = us
     /\ currentUserId' = nextId(id)
     /\ resp' = Reply("createUser", 500, "Failed to create user", {})
     /\ UNCHANGED <<activities, currentActivityId, organizations, currentOrgId,
                    sessions, now>>

\* PUT /api/users/:id: the await sits in the try; catch answers 500
UpdateUserFault(c, userId, body) ==
  /\ isAuthenticated(c)
  /\ getUser(users, userId) # NoUser
  /\ Arrive("updateUser", c, userId, body)
  /\ users' = updateUser(users, userId, body)
  /\ resp' = Reply("updateUser", 500, "Failed to update user", {})
  /\ UNCHANGED <<currentUserId, activities, currentActivityId, organizations,
                 currentOrgId, sessions, now>>

\* DELETE /api/users/:id: the await sits in the try; catch answers 500
DeleteUserFault(c, userId) ==
  /\ isAuthenticated(c)
  /\ getUser(users, userId) # NoUser
  /\ ~isSelf(userId, deserializeUser(c))
  /\ Arrive("deleteUser", c, userId, EmptyBody)
  /\ users' = deleteUser(users, userId)
  /\ resp' = Reply("deleteUser", 500, "Failed to delete user", {})
  /\ UNCHANGED <<currentUserId, activities, currentActivityId, organizations,
                 currentOrgId, sessions, now>>

\* POST /api/organizations: the await sits in the try; catch answers 500
CreateOrganizationFault(c, body) ==
  LET id == currentOrgId
  IN /\ isAuthenticated(c)
     /\ ValidInsertOrganization(body)
     /\ id <= MaxFaultId
     /\ Arrive("createOrganization", c, NoOrg, body)
     /\ organizations' = createOrganization(organizations, id, validatedOrg(body))
     /\ currentOrgId' = id + 1
     /\ resp' = Reply("createOrganization", 500, "Failed to create organization", {})
     /\ UNCHANGED <<users, currentUserId, activities, currentActivityId,
                    sessions, now>>

\* the activity was appended / createActivity rejected
Sound == UNCHANGED <<served, logLimit, calls>> /\ fault' = FALSE
Faulted == UNCHANGED <<served, logLimit, calls>> /\ fault' = TRUE

FaultUpdates == {[fullName |-> "X"]}
FaultOrgs == {[name |-> "Acme", type |-> "DISTRIBUTOR"]}

NextFault ==
  \/ \E c \in ApiClients, body \in ApiBodies : Register(c, body) /\ Sound
  \/ \E c \in ApiClients : Login(c, "admin", "admin") /\ Sound
  \/ \E c \in ApiClients : Logout(c) /\ Sound
  \/ \E c \in ApiClients, body \in ApiBodies : CreateUser(c, body) /\ Sound
  \/ \E c \in ApiClients, id \in TargetIds, body \in FaultUpdates :
        UpdateUser(c, id, body) /\ Sound
  \/ \E c \in ApiClients, id \in TargetIds : DeleteUser(c, id) /\ Sound
  \/ \E c \in ApiClients, body \in FaultOrgs : CreateOrganization(c, body) /\ Sound
  \/ \E c \in ApiClients, body \in ApiBodies : RegisterFault(c, body) /\ Faulted
  \/ \E c \in ApiClients, exits \in BOOLEAN :
        LoginFault(c, "admin", "admin", exits) /\ Faulted
  \/ \E c \in ApiClients, exits \in BOOLEAN : LogoutFault(c, exits) /\ Faulted
  \/ \E c \in ApiClients, body \in ApiBodies : CreateUserFault(c, body) /\ Faulted
  \/ \E c \in ApiClients, id \in TargetIds, body \in FaultUpdates :
        UpdateUserFault(c, id, body) /\ Faulted
  \/ \E c \in ApiClients, id \in TargetIds : DeleteUserFault(c, id) /\ Faulted
  \/ \E c \in ApiClients, body \in FaultOrgs :
        CreateOrganizationFault(c, body) /\ Faulted

\* the handlers that append an activity
LoggingOps ==
  {"login", "logout", "register", "createUser", "updateUser", "deleteUser",
   "createOrganization"}

\* C22: when createActivity fails in a login, logout, register, createUser,
\* updateUser, deleteUser or createOrganization, the request is answered
\* with a status of the 500 class.
C22_AppendFailureIs500 ==
  (fault /\ req.op \in LoggingOps) => resp.status >= 500 /\ resp.status <= 599

\* ------------------------------------------------ the repository by itself
\* SpecStorage: the methods of MemStorage called directly, as the handlers
\* and any other holder of the exported storage object call them.  resp
\* carries the returned record in users (user methods) or list
\* (organisation methods), and nothing for undefined or a boolean.
StorageUserBodies == {[fullName |-> "X"]}
StorageOrgBodies == {[type |-> "HOSPITAL"]}
StorageInsertOrgs == {[name |-> "Acme", type |-> "DISTRIBUTOR"]}

\* the ids the repository has handed out, and the next one
StorageUserIds == FirstId..currentUserId
StorageOrgIds == FirstId..currentOrgId

StorageCreateUser(insertUser) ==
  LET id == currentUserId
      us == createUser(users, id, insertUser)
  IN /\ id <= MaxStoredId
     /\ Arrive("storage.createUser", "c1", NoUser, insertUser)
     /\ users' = us
     /\ currentUserId' = nextId(id)
     /\ resp' = Reply("storage.createUser", 0, "", {us[id]})
     /\ UNCHANGED <<activities, currentActivityId, organizations, currentOrgId,
                    sessions, now>>

StorageUpdateUser(id, user) ==
  LET us == updateUser(users, id, user)
  IN /\ Arrive("storage.updateUser", "c1", id, user)
     /\ users' = us
     /\ resp' = IF getUser(users, id) = NoUser
                THEN Reply("storage.updateUser", 0, "undefined", {})
                ELSE Reply("storage.updateUser", 0, "", {us[id]})
     /\ UNCHANGED <<currentUserId, activities, currentActivityId, organizations,
                    currentOrgId, sessions, now>>

StorageDeleteUser(id) ==
  /\ Arrive("storage.deleteUser", "c1", id, EmptyBody)
  /\ users' = deleteUser(users, id)
  /\ resp' = Reply("storage.deleteUser", 0,
                   IF id \in DOMAIN users THEN "true" ELSE "false", {})
  /\ UNCHANGED <<currentUserId, activities, currentActivityId, organizations,
                 currentOrgId, sessions, now>>

StorageCreateOrganization(organization) ==
  LET id == currentOrgId
      orgs == createOrganization(organizations, id, organization)
  IN /\ id <= MaxStoredId
     /\ Arrive("storage.createOrganization", "c1", NoOrg, organization)
     /\ organizations' = orgs
     /\ currentOrgId' = id + 1
     /\ resp' = ReplyList("storage.createOrganization", 0, {}, <<orgs[id]>>)
     /\ UNCHANGED <<users, currentUserId, activities, currentActivityId,
                    sessions, now>>

StorageUpdateOrganization(id, organization) ==
  LET orgs == updateOrganization(organizations, id, organization)
  IN /\ Arrive("storage.updateOrganization", "c1", id, organization)
     /\ organizations' = orgs
     /\ resp' = IF getOrganization(organizations, id) = NoOrg
                THEN Reply("storage.updateOrganization", 0, "undefined", {})
                ELSE ReplyList("storage.updateOrganization", 0, {}, <<orgs[id]>>)
     /\ UNCHANGED <<users, currentUserId, activities, currentActivityId,
                    currentOrgId, sessions, now>>

NextStorage ==
  \/ \E body \in ApiBodies : StorageCreateUser(validatedData(body)) /\ Quiet
  \/ \E id \in StorageUserIds, user \in StorageUserBodies :
        StorageUpdateUser(id, user) /\ Quiet
  \/ \E id \in StorageUserIds : StorageDeleteUser(id) /\ Quiet
  \/ \E body \in StorageInsertOrgs : StorageCreateOrganization(body) /\ Quiet
  \/ \E id \in StorageOrgIds, organization \in StorageOrgBodies :
        StorageUpdateOrganization(id, organization) /\ Quiet

\* C23: updateUser and updateOrganization on an id that has no record
\* return undefined and change nothing: no record appears under the id and
\* no stored record, user or organisation, is modified.
C23_UpdateOfAbsentIdIsNoOp ==
  /\ (req.op = "storage.updateUser" /\ req.id \notin DOMAIN pre.users)
     => /\ resp = Reply("storage.updateUser", 0, "undefined", {})
        /\ users = pre.users
        /\ organizations = pre.organizations
        /\ currentUserId = pre.currentUserId
  /\ (req.op = "storage.updateOrganization" /\ req.id \notin DOMAIN pre.organizations)
     => /\ resp = Reply("storage.updateOrganization", 0, "undefined", {})
        /\ organizations = pre.organizations
        /\ users = pre.users
        /\ currentOrgId = pre.currentOrgId

\* an organisation was updated under an id that has none, while other
\* organisations and a deleted user's id exist
C23_AbsentIdUpdated ==
  /\ req.op = "storage.updateOrganization"
  /\ req.id \notin DOMAIN pre.organizations
  /\ Cardinality(DOMAIN pre.organizations) >= 2
  /\ \E k \in FirstId..(currentUserId - 1) : k \notin DOMAIN users

\* ------------------------------------------------------ deleted accounts
\* SpecGone: two clients register, log in, and delete accounts whose
\* username is then registered again.
InitGone == Installed /\ logLimit = MaxGoneLog

NextGone ==
  \/ \E c \in Clients, body \in ApiBodies : Register(c, body) /\ Quiet
  \/ \E c \in Clients, u \in Usernames, p \in Passwords : Login(c, u, p) /\ Quiet
  \/ \E c \in Clients : Logout(c) /\ Quiet
  \/ \E c \in Clients : CurrentUser(c) /\ Quiet
  \/ \E c \in Clients : ListUsers(c) /\ Quiet
  \/ \E c \in Clients, id \in TargetIds : DeleteUser(c, id) /\ Quiet

\* the session of the request was bound to an id whose user is deleted
OnDeletedSession ==
  /\ pre.sessions[req.client] # NoUser
  /\ pre.sessions[req.client] \notin DOMAIN pre.users

\* the log the request found tells the deletion of a user of that name
WasDeleted(username) ==
  \E i \in DOMAIN pre.activities :
     /\ pre.activities[i].action = "DELETE_USER"
     /\ pre.activities[i].description[2] = username

Concurrent(c, d) == c # d /\ calls[c].raced /\ calls[d].raced

\* both are PUT requests whose updateUser found the same user, with bodies
\* that share no field
DisjointUpdates(c, d) ==
  /\ Concurrent(c, d)
  /\ calls[c].op = "updateUser" /\ calls[d].op = "updateUser"
  /\ calls[c].id = calls[d].id
  /\ calls[c].applied /\ calls[d].applied
  /\ DOMAIN calls[c].body \cap DOMAIN calls[d].body = {}

\* C24: two concurrent updateUser requests on one user with disjoint fields
\* lose no field: once both updates are applied the record carries the
\* values of both bodies, and every other field has the value the record
\* had when the handlers read it.
C24_ConcurrentUpdatesKeepFields ==
  \A c, d \in Clients :
     (DisjointUpdates(c, d) /\ calls[c].id \in DOMAIN users)
     => \A f \in DOMAIN users[calls[c].id] :
          users[calls[c].id][f] =
            IF f \in DOMAIN calls[c].body THEN calls[c].body[f]
            ELSE IF f \in DOMAIN calls[d].body THEN calls[d].body[f]
            ELSE calls[c].user[f]

\* two concurrent updates of one user, one of fullName and one of email,
\* were both answered 200
C24_BothUpdatesAnswered ==
  \E c, d \in Clients :
     /\ DisjointUpdates(c, d)
     /\ calls[c].status = 200 /\ calls[d].status = 200
     /\ DOMAIN calls[c].body = {"fullName"}
     /\ DOMAIN calls[d].body = {"email"}

C28_UpdateLoggedOnlyIfApplied ==
  \A c \in Clients :
     (calls[c].op = "updateUser" /\ calls[c].logged) => calls[c].applied

\* C21: an authenticated requester's deleteUser of a stored user other than
\* itself succeeds, the target is stored no more, so that getUser(target)
\* finds nothing, and exactly one DELETE_USER activity with the requester's
\* id has been appended.
C21_DeleteOtherSucceeds ==
  (/\ req.op = "deleteUser"
   /\ WasBound(req.client)
   /\ req.id \in DOMAIN pre.users
   /\ req.id # pre.sessions[req.client])
  => /\ resp.status = 200
     /\ getUser(users, req.id) = NoUser
     /\ DOMAIN users = DOMAIN pre.users \ {req.id}
     /\ AppendedOne("DELETE_USER", pre.sessions[req.client])

\* C29: every stored user's id field is the key the user is stored under.
C29_IdIsKey ==
  \A k \in DOMAIN users : users[k].id = k

\* C30: user ids are handed out in increasing order and never again: every
\* stored key lies below the counter, the counter never falls, a request
\* adds no key but the counter's, and a key that has been handed out and is
\* stored no more, to which an activity or a session may still refer, stays
\* without a user.
C30_IdsNeverReused ==
  /\ \A k \in DOMAIN users : FirstId <= k /\ k < currentUserId
  /\ currentUserId >= pre.currentUserId
  /\ DOMAIN users \ DOMAIN pre.users \subseteq {pre.currentUserId}
  /\ (DOMAIN users \ DOMAIN pre.users # {}) => currentUserId > pre.currentUserId
  /\ \A k \in FirstId..(pre.currentUserId - 1) :
       k \notin DOMAIN pre.users => k \notin DOMAIN users

\* a user was created while an activity of the log refers to a deleted
\* user
C30_CreatedAfterDelete ==
  /\ req.op \in {"register", "createUser"}
  /\ resp.status = 201
  /\ \E k \in FirstId..(pre.currentUserId - 1) :
       /\ k \notin DOMAIN pre.users
       /\ \E i \in DOMAIN pre.activities : pre.activities[i].userId = k
  /\ pre.currentUserId \in DOMAIN users

Spec == Init /\ [][Next]_vars
SpecGone == InitGone /\ [][NextGone]_vars
SpecStorage == Init /\ [][NextStorage]_vars
SpecAsync == InitAsync /\ [][NextAsync]_vars
SpecFault == InitFault /\ [][NextFault]_vars

SpecApi == Init /\ [][NextApi]_vars

SpecClock == Init /\ [][NextClock]_vars

SpecRoles == InitRoles /\ [][NextRoles]_vars
====
